---- MODULE Spec2Model ----
(***************************************************************************)
(* BAPS-QB-SOLVER: the study-guide generator.                              *)
(*                                                                         *)
(* Spec        the App: file selection, handleGenerate and the calls of    *)
(*             generateAnswersFromPdf it makes, history, reset, tabs.      *)
(*             The custom instruction and the settings stay at their       *)
(*             initial values here; SpecUi and SpecGen vary them.          *)
(* SpecUi      the App's handlers that make no hosted call: the upload     *)
(*             area with files around the size limit, the instruction     *)
(*             box, the settings, the tabs, the history buttons.           *)
(* SpecGen     one call of generateAnswersFromPdf (services/geminiService) *)
(*             with its inputs drawn from bounded sets: prompt assembly    *)
(*             and the two-tier PRO -> FLASH fallback.                     *)
(* SpecPcm     AudioPlayer: the decoding of one reply of the speech        *)
(*             endpoint into the playback buffer.                          *)
(*                                                                         *)
(* JavaScript values are modelled as follows.  An optional string is a     *)
(* record [def, s]: def = FALSE is undefined.  A string whose characters   *)
(* matter (the custom instruction, the prompt) is a sequence of pieces: a  *)
(* fixed phrase of the source is one piece, a user character is one piece. *)
(***************************************************************************)
EXTENDS Integers, Sequences, FiniteSets, TLC

\* ------------------------------------------------------------------ bounds
MaxCustomLen == 2
MaxRuns == 2
MaxPcmBytes == 4
MaxSpeechCalls == 2
MaxSources == 3
MaxPolls == 2
MaxVideos == 2

\* --------------------------------------------------------------- constants
PRO == "gemini-3-pro-preview"
FLASH == "gemini-2.5-flash"
ThinkingBudget == 2048
SYSTEM_INSTRUCTION == "You are an expert Academic Mentor and Study Guide Creator"
FixedMessage == "Failed to generate answers. Please try again later or check if the PDF is valid."
EmptyProMessage == "Empty response from Pro model"
EmptyFlashMessage == "Empty response from Flash model"

BasePrompt == "Generate a comprehensive study guide, solution key, and concept roadmap for the questions in this PDF. Use LaTeX for all math."
ConfigHeader == "\n\nCONFIGURATION:"
DepthConcise == "\n- DEPTH: Concise. Focus on key points and direct answers. Avoid fluff."
DepthDetailed == "\n- DEPTH: Detailed. Provide in-depth explanations, background context, and step-by-step derivations."
LanguageHinglish == "\n- LANGUAGE: Use English for technical terms but explain concepts using simple analogies or occasional Hindi/Gujarati context where helpful for Indian students (Hinglish style)."
FocusExam == "\n- FOCUS: Exam Preparation. Highlight potential exam questions, common pitfalls, and marking scheme tips."
FocusConcept == "\n- FOCUS: Concept Mastery. Focus on deep understanding, real-world applications, and connecting dots between topics."
UserPrefix == "\n\nUSER SPECIFIC INSTRUCTIONS: \""
UserSuffix == "\"."

\* ------------------------------------------------------------ value spaces
\* an optional string given character by character (the custom instruction)
Undefined == [def |-> FALSE, s |-> <<>>]
Str(s) == [def |-> TRUE, s |-> s]
\* an optional string taken as a whole (a response text, an error message)
NoText == [def |-> FALSE, s |-> ""]
Text(s) == [def |-> TRUE, s |-> s]

\* characters a user can type: a blank, a letter, a double quote
Chars == {" ", "a", "\""}
Whitespace == {" "}

RECURSIVE SeqsUpTo(_, _)
SeqsUpTo(S, n) ==
    IF n = 0 THEN {<<>>}
    ELSE LET shorter == SeqsUpTo(S, n - 1)
         IN  shorter \cup {Append(s, c) : s \in {t \in shorter : Len(t) = n - 1}, c \in S}

CustomInstructions == {Undefined} \cup {Str(s) : s \in SeqsUpTo(Chars, MaxCustomLen)}

NoSettings == [def |-> FALSE]
AppSettings ==
    [def : {TRUE}, depth : {"concise", "detailed"},
     language : {"english", "hinglish"}, focus : {"exam", "concept"}]
SettingsArgs == {NoSettings} \cup AppSettings

\* a File: its name, its declared MIME type, its size in bytes, its content
PdfType == "application/pdf"
MaxFileSize == 20 * 1024 * 1024
FileSizes == {2 * 1024 * 1024, MaxFileSize, MaxFileSize + 1}
FileOf(type, size) ==
    [name |-> IF type = PdfType THEN "qb.pdf" ELSE "scan.png",
     type |-> type, size |-> size, content |-> <<"bytes", type, size>>]
Files == {FileOf(t, n) : t \in {PdfType, "image/png"}, n \in FileSizes}
NoFile == [name |-> "", type |-> "", size |-> 0, content |-> <<>>]
\* the files the upload area lets through
GenFiles == {f \in Files : f.type = PdfType /\ f.size <= MaxFileSize}

\* what response.text can be: undefined, the empty string, or a text
Texts == {"study guide A", "study guide B"}
ResponseTexts == {NoText, Text("")} \cup {Text(t) : t \in Texts}
SdkErrors == {"503 model overloaded"}

NoThinking == [def |-> FALSE]

\* the fate of one outbound generateContent call
NotCalled == [kind |-> "none"]
Pending == [kind |-> "pending"]
Never == [kind |-> "never"]
Returned(text) == [kind |-> "ok", text |-> text]
Threw(message) == [kind |-> "throw", message |-> message]
Settlements == {Returned(t) : t \in ResponseTexts} \cup {Threw(m) : m \in SdkErrors}

\* ----------------------------------------------------------------- state
VARIABLES
    runs,          \* run id -> the state of that call of generateAnswersFromPdf
    nextRun,       \* the id the next call gets
    closures,      \* run id -> what the handleGenerate that made the call closed over
    mounted,       \* App: the mount effect has run
    activeTab,     \* App: 'upload' | 'view' | 'history' | 'settings'
    file,          \* App: the selected File or NoFile (null)
    customPrompt,  \* App: the text of the custom instruction box
    appSettings,   \* App: depth / language / focus
    processState,  \* App: [status, message]
    answerData,    \* App: the displayed AnswerData or NoAnswer (null)
    history,       \* App: the HistoryItems, most recent first
    storage,       \* localStorage['study_guider_history']
    isDragging,    \* UploadArea
    uploadError,   \* UploadArea: error
    offered,       \* UploadArea: the argument of the latest validateAndSetFile
    audioPayload,  \* the reply of the speech endpoint: <<>> before it arrives
    audioBuffer,   \* AudioPlayer: audioBufferRef.current
    audioError,    \* AudioPlayer: error
    audioText,     \* AudioPlayer: the text prop
    isPlaying,     \* AudioPlayer
    isLoading,     \* AudioPlayer
    hasAudio,      \* AudioPlayer
    audioContext,  \* AudioPlayer: audioContextRef.current, "none" for null
    sources,       \* the AudioBufferSourceNodes made so far
    sourceRef,     \* AudioPlayer: sourceRef.current, the index of a source or 0 for null
    speech,        \* the calls of generateAudioGuide made so far
    tornDown,      \* AudioPlayer: the cleanup of its effect has run
    topic,         \* VideoGenerator
    videoUrl,      \* VideoGenerator: the number of an object URL, 0 for null
    isGenerating,  \* VideoGenerator
    statusMsg,     \* VideoGenerator
    videoError,    \* VideoGenerator: error
    video,         \* the latest run of VideoGenerator's handleGenerate
    objectUrls     \* the object URLs made by URL.createObjectURL so far

genVars == <<runs, nextRun, closures>>
uploadVars == <<isDragging, uploadError, offered>>
appVars == <<mounted, activeTab, file, customPrompt, appSettings, processState,
             answerData, history, storage>>
audioVars == <<audioPayload, audioBuffer, audioError, audioText, isPlaying, isLoading,
               hasAudio, audioContext, sources, sourceRef, speech, tornDown>>
videoVars == <<topic, videoUrl, isGenerating, statusMsg, videoError, video, objectUrls>>
vars == <<genVars, appVars, uploadVars, audioVars, videoVars>>

RunIds == 1..MaxRuns

\* ------------------------------------------------- String.prototype.trim
RECURSIVE TrimStart(_)
TrimStart(s) ==
    IF s # <<>> /\ Head(s) \in Whitespace THEN TrimStart(Tail(s)) ELSE s

RECURSIVE TrimEnd(_)
TrimEnd(s) ==
    IF s # <<>> /\ s[Len(s)] \in Whitespace
    THEN TrimEnd(SubSeq(s, 1, Len(s) - 1)) ELSE s

Trim(s) == TrimEnd(TrimStart(s))

\* JavaScript truthiness of an optional string
Truthy(v) == v.def /\ Len(v.s) > 0
TruthyText(v) == v.def /\ v.s # ""

\* ------------------------------------------------------ prompt assembly
\* a variant that writes the focus directive before the language directive
SettingsDirectivesFocusFirst(settings) ==
    IF settings.def
    THEN <<ConfigHeader>>
         \o (IF settings.depth = "concise" THEN <<DepthConcise>> ELSE <<DepthDetailed>>)
         \o (IF settings.focus = "exam" THEN <<FocusExam>> ELSE <<FocusConcept>>)
         \o (IF settings.language = "hinglish" THEN <<LanguageHinglish>> ELSE <<>>)
    ELSE <<>>

\* a variant that falls back on the default values when no record is given
SettingsDirectivesDefaulted(settings) ==
    IF settings.def
    THEN <<ConfigHeader>>
         \o (IF settings.depth = "concise" THEN <<DepthConcise>> ELSE <<DepthDetailed>>)
         \o (IF settings.language = "hinglish" THEN <<LanguageHinglish>> ELSE <<>>)
         \o (IF settings.focus = "exam" THEN <<FocusExam>> ELSE <<FocusConcept>>)
    ELSE <<ConfigHeader, DepthDetailed, FocusConcept>>

SettingsDirectives(settings) ==
    IF settings.def
    THEN <<ConfigHeader>>
         \o (IF settings.depth = "concise" THEN <<DepthConcise>> ELSE <<DepthDetailed>>)
         \o (IF settings.language = "hinglish" THEN <<LanguageHinglish>> ELSE <<>>)
         \o (IF settings.focus = "exam" THEN <<FocusExam>> ELSE <<FocusConcept>>)
    ELSE <<>>

\* a variant that appends the trimmed instruction
CustomDirectiveTrimmed(customInstructions) ==
    IF Truthy(customInstructions) /\ Len(Trim(customInstructions.s)) > 0
    THEN <<UserPrefix>> \o Trim(customInstructions.s) \o <<UserSuffix>>
    ELSE <<>>

CustomDirective(customInstructions) ==
    IF Truthy(customInstructions) /\ Len(Trim(customInstructions.s)) > 0
    THEN <<UserPrefix>> \o customInstructions.s \o <<UserSuffix>>
    ELSE <<>>

AssemblePrompt(customInstructions, settings) ==
    <<BasePrompt>> \o SettingsDirectives(settings) \o CustomDirective(customInstructions)

\* ------------------------------------------------------- fileToBase64
FileToBase64(f) == [base64of |-> f.content]

\* ---------------------------------------------- the two outbound calls
ProRequest(base64Data, mimeType, promptText) ==
    [model |-> PRO, data |-> base64Data, mimeType |-> mimeType,
     text |-> promptText, systemInstruction |-> SYSTEM_INSTRUCTION,
     thinkingConfig |-> [def |-> TRUE, thinkingBudget |-> ThinkingBudget]]

\* a variant that keeps the thinking budget on the FLASH call
FlashRequestThinking(base64Data, mimeType, promptText) ==
    [model |-> FLASH, data |-> base64Data, mimeType |-> mimeType,
     text |-> promptText, systemInstruction |-> SYSTEM_INSTRUCTION,
     thinkingConfig |-> [def |-> TRUE, thinkingBudget |-> ThinkingBudget]]

FlashRequest(base64Data, mimeType, promptText) ==
    [model |-> FLASH, data |-> base64Data, mimeType |-> mimeType,
     text |-> promptText, systemInstruction |-> SYSTEM_INSTRUCTION,
     thinkingConfig |-> NoThinking]

\* what the promise of generateAnswersFromPdf has become
Unsettled == [kind |-> "unsettled"]
Resolved(text, modelUsed) == [kind |-> "resolved", text |-> text, modelUsed |-> modelUsed]
Rejected(message) == [kind |-> "rejected", message |-> message]

IdleRun ==
    [pc |-> "idle", file |-> NoFile, customInstructions |-> Undefined,
     settings |-> NoSettings, base64Data |-> FileToBase64(NoFile),
     promptText |-> <<>>, calls |-> <<>>,
     pro |-> NotCalled, flash |-> NotCalled, outcome |-> Unsettled]

\* generateAnswersFromPdf is entered: it runs up to `await fileToBase64(file)`
StartRun(f, customInstructions, settings) ==
    [IdleRun EXCEPT !.pc = "readFile", !.file = f,
                    !.customInstructions = customInstructions,
                    !.settings = settings]

\* reader.onload: the prompt is assembled and the PRO call goes out
AfterFileLoaded(run) ==
    LET base64Data == FileToBase64(run.file)
        promptText == AssemblePrompt(run.customInstructions, run.settings)
    IN  [run EXCEPT !.pc = "awaitPro",
                    !.base64Data = base64Data,
                    !.promptText = promptText,
                    !.calls = Append(@, ProRequest(base64Data, run.file.type, promptText)),
                    !.pro = Pending]

\* reader.onerror: the rejection of fileToBase64 leaves the function as it is
\* (the await is outside the try); a ProgressEvent carries no message
AfterFileError(run) ==
    [run EXCEPT !.pc = "rejected", !.outcome = Rejected(NoText)]

\* the AnswerData each tier returns
ProResultTaggedFlash(text) == Resolved(text, FLASH)

ProResult(text) == Resolved(text, PRO)

FlashResultTaggedPro(text) == Resolved(text, PRO)

FlashResult(text) == Resolved(text, FLASH)

\* the message of the error a catch block receives
CaughtMessage(resp, emptyMessage) ==
    IF resp.kind = "throw" THEN resp.message ELSE emptyMessage

\* a variant that gives up on an empty PRO response
AfterProNoFallbackOnEmpty(run, resp) ==
    IF resp.kind = "ok" /\ TruthyText(resp.text)
    THEN [run EXCEPT !.pc = "resolved", !.pro = resp,
                     !.outcome = ProResult(resp.text.s)]
    ELSE IF resp.kind = "ok"
    THEN [run EXCEPT !.pc = "rejected", !.pro = resp,
                     !.outcome = Rejected(Text(FixedMessage))]
    ELSE [run EXCEPT !.pc = "awaitFlash", !.pro = resp,
                     !.calls = Append(@, FlashRequest(run.base64Data, run.file.type, run.promptText)),
                     !.flash = Pending]

\* a variant that lets an error of the PRO call escape
AfterProRethrow(run, resp) ==
    IF resp.kind = "ok" /\ TruthyText(resp.text)
    THEN [run EXCEPT !.pc = "resolved", !.pro = resp,
                     !.outcome = ProResult(resp.text.s)]
    ELSE IF resp.kind = "throw"
    THEN [run EXCEPT !.pc = "rejected", !.pro = resp,
                     !.outcome = Rejected(Text(resp.message))]
    ELSE [run EXCEPT !.pc = "awaitFlash", !.pro = resp,
                     !.calls = Append(@, FlashRequest(run.base64Data, run.file.type, run.promptText)),
                     !.flash = Pending]

\* the PRO call settles: a text is returned as it is, anything else
\* (a thrown error, an empty or missing text) enters the catch block, which
\* sends the FLASH call
AfterPro(run, resp) ==
    IF resp.kind = "ok" /\ TruthyText(resp.text)
    THEN [run EXCEPT !.pc = "resolved", !.pro = resp,
                     !.outcome = ProResult(resp.text.s)]
    ELSE [run EXCEPT !.pc = "awaitFlash", !.pro = resp,
                     !.calls = Append(@, FlashRequest(run.base64Data, run.file.type, run.promptText)),
                     !.flash = Pending]

\* a variant that passes finalError on
AfterFlashRawError(run, resp) ==
    IF resp.kind = "ok" /\ TruthyText(resp.text)
    THEN [run EXCEPT !.pc = "resolved", !.flash = resp,
                     !.outcome = FlashResult(resp.text.s)]
    ELSE [run EXCEPT !.pc = "rejected", !.flash = resp,
                     !.outcome = Rejected(Text(CaughtMessage(resp, EmptyFlashMessage)))]

\* a variant that sends the FLASH call once more
AfterFlashRetry(run, resp) ==
    IF resp.kind = "ok" /\ TruthyText(resp.text)
    THEN [run EXCEPT !.pc = "resolved", !.flash = resp,
                     !.outcome = FlashResult(resp.text.s)]
    ELSE IF Len(run.calls) < 3
    THEN [run EXCEPT !.calls = Append(@, FlashRequest(run.base64Data, run.file.type, run.promptText))]
    ELSE [run EXCEPT !.pc = "rejected", !.flash = resp,
                     !.outcome = Rejected(Text(FixedMessage))]

\* the FLASH call settles: a text is returned, anything else (finalError) is
\* replaced by the one fixed error
AfterFlash(run, resp) ==
    IF resp.kind = "ok" /\ TruthyText(resp.text)
    THEN [run EXCEPT !.pc = "resolved", !.flash = resp,
                     !.outcome = FlashResult(resp.text.s)]
    ELSE [run EXCEPT !.pc = "rejected", !.flash = resp,
                     !.outcome = Rejected(Text(FixedMessage))]

\* ------------------------------------------------ AudioPlayer: decoding
\* base64: the 64 digits, '=' for padding
B64Digits ==
    <<"A", "B", "C", "D", "E", "F", "G", "H", "I", "J", "K", "L", "M", "N", "O", "P",
      "Q", "R", "S", "T", "U", "V", "W", "X", "Y", "Z", "a", "b", "c", "d", "e", "f",
      "g", "h", "i", "j", "k", "l", "m", "n", "o", "p", "q", "r", "s", "t", "u", "v",
      "w", "x", "y", "z", "0", "1", "2", "3", "4", "5", "6", "7", "8", "9", "+", "/">>
B64Digit(n) == B64Digits[n + 1]
B64Value(c) == (CHOOSE i \in 1..64 : B64Digits[i] = c) - 1

\* what the speech endpoint does to its raw PCM bytes before sending them
RECURSIVE Base64Encode(_)
Base64Encode(bytes) ==
    IF Len(bytes) = 0 THEN <<>>
    ELSE IF Len(bytes) = 1
    THEN <<B64Digit(bytes[1] \div 4), B64Digit((bytes[1] % 4) * 16), "=", "=">>
    ELSE IF Len(bytes) = 2
    THEN <<B64Digit(bytes[1] \div 4),
           B64Digit((bytes[1] % 4) * 16 + bytes[2] \div 16),
           B64Digit((bytes[2] % 16) * 4), "=">>
    ELSE <<B64Digit(bytes[1] \div 4),
           B64Digit((bytes[1] % 4) * 16 + bytes[2] \div 16),
           B64Digit((bytes[2] % 16) * 4 + bytes[3] \div 64),
           B64Digit(bytes[3] % 64)>>
         \o Base64Encode(SubSeq(bytes, 4, Len(bytes)))

\* atob: the binary string, one character code per byte
RECURSIVE Atob(_)
Atob(base64) ==
    IF Len(base64) < 4 THEN <<>>
    ELSE LET a == B64Value(base64[1])
             b == B64Value(base64[2])
             rest == SubSeq(base64, 5, Len(base64))
         IN  IF base64[3] = "="
             THEN <<a * 4 + b \div 16>>
             ELSE IF base64[4] = "="
             THEN <<a * 4 + b \div 16, (b % 16) * 16 + B64Value(base64[3]) \div 4>>
             ELSE <<a * 4 + b \div 16,
                    (b % 16) * 16 + B64Value(base64[3]) \div 4,
                    (B64Value(base64[3]) % 4) * 64 + B64Value(base64[4])>>
                  \o Atob(rest)

\* decodeBase64: a Uint8Array with the character codes of atob(base64)
DecodeBase64(base64) ==
    LET binaryString == Atob(base64)
    IN  [i \in 1..Len(binaryString) |-> binaryString[i] % 256]

\* a variant that reads the pair as an unsigned number
Int16AtUnsigned(bytes, i) == bytes[2 * i - 1] + 256 * bytes[2 * i]

\* one element of an Int16Array over the bytes (little-endian, two's complement)
Int16At(bytes, i) ==
    LET u == bytes[2 * i - 1] + 256 * bytes[2 * i]
    IN  IF u >= 32768 THEN u - 65536 ELSE u

\* a sample is the quotient num / den
PcmScale == 32768
Sample(int16) == [num |-> int16, den |-> PcmScale]

NoBuffer == [def |-> FALSE]
NoAudioMessage == "No audio generated by the model."
RangeError == "byte length of Int16Array should be a multiple of 2"

\* lines 48-67 of handleGenerateAndPlay: the decoded buffer, or the RangeError
\* new Int16Array(buffer) throws for a buffer of odd length
DecodePcm(base64) ==
    LET audioData == DecodeBase64(base64)
    IN  IF Len(audioData) % 2 # 0
        THEN [ok |-> FALSE, message |-> RangeError]
        ELSE LET frameCount == Len(audioData) \div 2
             IN  [ok |-> TRUE,
                  channelData |-> [i \in 1..frameCount |-> Sample(Int16At(audioData, i))]]

\* ------------------------------------------------------ generateAudioGuide
SliceLimit == 4000
ReadPrefix == "Read this study guide clearly and professionally. Content: "

\* s.slice(0, end) for end >= 0
Slice(s, end) == SubSeq(s, 1, IF Len(s) < end THEN Len(s) ELSE end)

\* a variant that sends the whole guide
SummaryPromptUnsliced(guide) == <<ReadPrefix>> \o guide

SummaryPrompt(guide) == <<ReadPrefix>> \o Slice(guide, SliceLimit)

\* a call of generateAudioGuide(guide) up to its await
SpeechCall(guide) ==
    [text |-> guide,
     request |-> [model |-> "gemini-2.5-flash-preview-tts",
                  contents |-> SummaryPrompt(guide), voiceName |-> "Fenrir"],
     state |-> "pending"]

\* a variant that returns whatever the response holds
AudioGuideReturnUnchecked(base64Audio) == [ok |-> TRUE, data |-> base64Audio]

\* the end of generateAudioGuide: an absent or empty payload is falsy
AudioGuideReturn(base64Audio) ==
    IF Len(base64Audio) = 0
    THEN [ok |-> FALSE, message |-> NoAudioMessage]
    ELSE [ok |-> TRUE, data |-> base64Audio]

\* ------------------------------------------------------------ AudioPlayer
SpeechPending ==
    /\ isLoading
    /\ speech # <<>>
    /\ speech[Len(speech)].state = "pending"

\* playBuffer, on the context ctx; a source started on a closed context is
\* never rendered
PlayBuffer(ctx, buffer) ==
    IF ctx = "none"
    THEN UNCHANGED <<sources, sourceRef, isPlaying>>
    ELSE /\ sources' = Append(sources, [buffer |-> buffer,
                                       state |-> IF ctx = "closed" THEN "silent"
                                                 ELSE "playing"])
         /\ sourceRef' = Len(sources) + 1
         /\ isPlaying' = TRUE

\* stopAudio: a stopped source fires its ended event later
StopAudio ==
    /\ sources' = IF sourceRef # 0 /\ sources[sourceRef].state = "playing"
                  THEN [sources EXCEPT ![sourceRef].state = "stopped"]
                  ELSE sources
    /\ sourceRef' = 0
    /\ isPlaying' = FALSE

\* a variant that asks for the audio again although a buffer is stored
HandleGenerateAndPlayAgain ==
    /\ ~tornDown
    /\ ~isLoading
    /\ IF isPlaying
       THEN /\ StopAudio
            /\ UNCHANGED <<audioPayload, audioBuffer, audioError, isLoading, hasAudio,
                           audioContext, speech>>
       ELSE /\ Len(speech) < MaxSpeechCalls
            /\ isLoading' = TRUE
            /\ audioError' = NoText
            /\ speech' = Append(speech, SpeechCall(audioText))
            /\ audioPayload' = <<>>
            /\ UNCHANGED <<audioBuffer, isPlaying, hasAudio, audioContext, sources,
                           sourceRef>>
    /\ UNCHANGED <<audioText, tornDown, videoVars, genVars,
                   appVars, uploadVars>>

\* handleGenerateAndPlay up to its await; the button is disabled while loading
HandleGenerateAndPlay ==
    /\ ~tornDown
    /\ ~isLoading
    /\ IF isPlaying
       THEN /\ StopAudio
            /\ UNCHANGED <<audioPayload, audioBuffer, audioError, isLoading, hasAudio,
                           audioContext, speech>>
       ELSE IF hasAudio /\ audioBuffer.def
       THEN /\ Len(sources) < MaxSources
            /\ PlayBuffer(audioContext, audioBuffer)
            /\ UNCHANGED <<audioPayload, audioBuffer, audioError, isLoading, hasAudio,
                           audioContext, speech>>
       ELSE /\ Len(speech) < MaxSpeechCalls
            /\ isLoading' = TRUE
            /\ audioError' = NoText
            /\ speech' = Append(speech, SpeechCall(audioText))
            /\ audioPayload' = <<>>
            /\ UNCHANGED <<audioBuffer, isPlaying, hasAudio, audioContext, sources,
                           sourceRef>>
    /\ UNCHANGED <<audioText, tornDown, videoVars, genVars,
                   appVars, uploadVars>>

\* the call of the speech endpoint throws: catch and finally
AudioGuideThrows(message) ==
    /\ SpeechPending
    /\ speech' = [speech EXCEPT ![Len(speech)].state = "threw"]
    /\ audioError' = Text(IF message # "" THEN message ELSE "Failed to generate audio.")
    /\ isLoading' = FALSE
    /\ UNCHANGED <<audioPayload, audioBuffer, audioText, isPlaying, hasAudio, audioContext,
                   sources, sourceRef, tornDown, videoVars, genVars,
                   appVars, uploadVars>>

\* onended of source i: it has played to its end, or it was stopped
SourceEnded(i) ==
    /\ i \in 1..Len(sources)
    /\ sources[i].state \in {"playing", "stopped"}
    /\ sources' = [sources EXCEPT ![i].state = "done"]
    /\ isPlaying' = FALSE
    /\ UNCHANGED <<audioPayload, audioBuffer, audioError, audioText, isLoading, hasAudio,
                   audioContext, sourceRef, speech, tornDown, videoVars, genVars,
                   appVars, uploadVars>>

\* the cleanup of the effect, run when the AnswerViewer unmounts: the source
\* of sourceRef is stopped and the context, if there is one, is closed, which
\* silences whatever else plays on it; the refs keep their objects, and the
\* promise of a call that is outstanding still settles afterwards
AudioCleanup ==
    /\ ~tornDown
    /\ tornDown' = TRUE
    /\ sources' = [i \in 1..Len(sources) |->
                      IF sources[i].state # "playing" THEN sources[i]
                      ELSE IF i = sourceRef THEN [sources[i] EXCEPT !.state = "stopped"]
                      ELSE IF audioContext # "none" THEN [sources[i] EXCEPT !.state = "silent"]
                      ELSE sources[i]]
    /\ audioContext' = IF audioContext # "none" THEN "closed" ELSE audioContext
    /\ UNCHANGED <<audioPayload, audioBuffer, audioError, audioText, isPlaying, isLoading,
                   hasAudio, sourceRef, speech, videoVars, genVars, appVars, uploadVars>>

\* the AnswerViewer is rendered again with other data while it stays mounted
\* (a generation completes, or fails over to FLASH, while the view tab shows
\* an item of the history): the AudioPlayer gets another text and keeps its
\* state and refs
TextChanges(guide) ==
    /\ ~tornDown
    /\ guide # audioText
    /\ audioText' = guide
    /\ UNCHANGED <<audioPayload, audioBuffer, audioError, isPlaying, isLoading, hasAudio,
                   audioContext, sources, sourceRef, speech, tornDown, videoVars, genVars,
                   appVars, uploadVars>>

\* ------------------------------------------------ generateEducationalVideo
ContextLimit == 300
PollInterval == 5000
NoUriMessage == "Video generation completed but no URI returned."

\* an operation handle as the service returns it: done or not, with the uri
\* of the first generated video or without one
Operation(done, uri) == [def |-> TRUE, done |-> done, uri |-> uri]

VideoRequest(prompt) ==
    [model |-> "veo-3.1-fast-generate-preview",
     prompt |-> <<"Professional educational animation, 3d style, clear and bright visuals, explaining: ">>
                   \o prompt,
     numberOfVideos |-> 1, resolution |-> "720p", aspectRatio |-> "16:9"]

\* the argument handleGenerate passes to generateEducationalVideo
VideoPrompt(aTopic, contextText) ==
    <<aTopic, ". Context for video generation: ">> \o Slice(contextText, ContextLimit)

VideoReturned(uri) == [kind |-> "returned", uri |-> uri]
VideoThrew(message) == [kind |-> "threw", message |-> message]

\* a run of handleGenerate: where it is, what it closed over, the request and
\* the handles of generateEducationalVideo, its sleeps and status queries in
\* the order they were made, how generateEducationalVideo settled, and the
\* url handleGenerate fetched
NoVideoRun ==
    [pc |-> "idle", topic |-> "", contextText |-> <<>>, request |-> <<>>,
     first |-> [def |-> FALSE], operation |-> [def |-> FALSE], trace |-> <<>>,
     result |-> [kind |-> "unsettled"], fetched |-> <<>>]

Queries(run) == Cardinality({i \in 1..Len(run.trace) : run.trace[i].event = "query"})

\* generateEducationalVideo is called and runs up to its first await
CallGenerateVideos(run) ==
    [run EXCEPT !.pc = "generateVideos",
                !.request = <<VideoRequest(VideoPrompt(run.topic, run.contextText))>>]

\* a variant that gives back whatever uri the operation holds
AfterDoneUnchecked(run, operation) ==
    [run EXCEPT !.pc = "fetch",
                !.operation = operation,
                !.result = VideoReturned(operation.uri),
                !.fetched = <<[uri |-> operation.uri, key |-> "API_KEY"]>>]

\* the operation is done: generateEducationalVideo returns its uri or throws,
\* and handleGenerate fetches the uri it got
AfterDone(run, operation) ==
    IF ~TruthyText(operation.uri)
    THEN [run EXCEPT !.pc = "idle",
                     !.operation = operation,
                     !.result = VideoThrew(NoUriMessage)]
    ELSE [run EXCEPT !.pc = "fetch",
                     !.operation = operation,
                     !.result = VideoReturned(operation.uri),
                     !.fetched = <<[uri |-> operation.uri, key |-> "API_KEY"]>>]

\* a variant that asks again at once
AfterOperationNoSleep(run, operation) ==
    IF operation.done
    THEN AfterDone(run, operation)
    ELSE [run EXCEPT !.pc = "query",
                     !.operation = operation,
                     !.trace = Append(@, [event |-> "query", of |-> operation])]

\* the loop of generateEducationalVideo, entered with a handle
AfterOperation(run, operation) ==
    IF operation.done
    THEN AfterDone(run, operation)
    ELSE [run EXCEPT !.pc = "sleep",
                     !.operation = operation,
                     !.trace = Append(@, [event |-> "sleep", ms |-> PollInterval])]

\* ---------------------------------------------------------- VideoGenerator
\* a variant without the finally block
VideoCatchStillGenerating(message) ==
    /\ videoError' = Text(IF message # "" THEN message ELSE "Failed to generate video.")
    /\ UNCHANGED <<isGenerating, videoUrl, objectUrls>>

\* catch and finally of handleGenerate
VideoCatch(message) ==
    /\ videoError' = Text(IF message # "" THEN message ELSE "Failed to generate video.")
    /\ isGenerating' = FALSE
    /\ UNCHANGED <<videoUrl, objectUrls>>

\* what handleGenerate does once generateEducationalVideo has moved on
VideoContinuation(run) ==
    IF run.result.kind = "threw"
    THEN VideoCatch(run.result.message) /\ UNCHANGED statusMsg
    ELSE /\ statusMsg' = IF run.result.kind = "returned" THEN "Rendering animation..." ELSE statusMsg
         /\ UNCHANGED <<videoError, isGenerating, videoUrl, objectUrls>>

SetTopic(value) ==
    /\ videoUrl = 0
    /\ topic' = value
    /\ UNCHANGED <<videoUrl, isGenerating, statusMsg, videoError, video, objectUrls,
                   audioVars, genVars, appVars, uploadVars>>

\* handleGenerate of VideoGenerator up to its first await; aistudio tells
\* whether window.aistudio exists
VideoHandleGenerate(aistudio) ==
    /\ videoUrl = 0
    /\ topic # "" /\ ~isGenerating
    /\ objectUrls < MaxVideos
    /\ videoError' = NoText
    /\ isGenerating' = TRUE
    /\ LET run == [NoVideoRun EXCEPT !.topic = topic, !.contextText = audioText]
       IN  IF aistudio
           THEN /\ statusMsg' = "Checking Permissions..."
                /\ video' = [run EXCEPT !.pc = "hasSelectedApiKey"]
           ELSE /\ statusMsg' = "Dreaming up visuals..."
                /\ video' = CallGenerateVideos(run)
    /\ UNCHANGED <<topic, videoUrl, objectUrls, audioVars, genVars, appVars, uploadVars>>

HasSelectedApiKeySettles(hasKey) ==
    /\ video.pc = "hasSelectedApiKey"
    /\ IF hasKey
       THEN /\ statusMsg' = "Dreaming up visuals..."
            /\ video' = CallGenerateVideos(video)
       ELSE /\ statusMsg' = statusMsg
            /\ video' = [video EXCEPT !.pc = "openSelectKey"]
    /\ UNCHANGED <<topic, videoUrl, isGenerating, videoError, objectUrls,
                   audioVars, genVars, appVars, uploadVars>>

OpenSelectKeySettles ==
    /\ video.pc = "openSelectKey"
    /\ statusMsg' = "Dreaming up visuals..."
    /\ video' = CallGenerateVideos(video)
    /\ UNCHANGED <<topic, videoUrl, isGenerating, videoError, objectUrls,
                   audioVars, genVars, appVars, uploadVars>>

\* generateVideos returns a handle; a handle that is not done is given only
\* while the service may still be asked MaxPolls times
GenerateVideosSettles(operation) ==
    /\ video.pc = "generateVideos"
    /\ ~operation.done => Queries(video) < MaxPolls
    /\ video' = AfterOperation([video EXCEPT !.first = operation], operation)
    /\ VideoContinuation(video')
    /\ UNCHANGED <<topic, audioVars, genVars, appVars, uploadVars>>

\* the timer of the sleep fires and the status query is sent
SleepEnds ==
    /\ video.pc = "sleep"
    /\ video' = [video EXCEPT !.pc = "query",
                              !.trace = Append(@, [event |-> "query", of |-> video.operation])]
    /\ UNCHANGED <<topic, videoUrl, isGenerating, statusMsg, videoError, objectUrls,
                   audioVars, genVars, appVars, uploadVars>>

GetVideosOperationSettles(operation) ==
    /\ video.pc = "query"
    /\ ~operation.done => Queries(video) < MaxPolls
    /\ video' = AfterOperation(video, operation)
    /\ VideoContinuation(video')
    /\ UNCHANGED <<topic, audioVars, genVars, appVars, uploadVars>>

\* the call handleGenerate is waiting for throws; a throw of generateVideos or
\* getVideosOperation is the throw of generateEducationalVideo
VideoThrows(message) ==
    /\ video.pc # "idle" /\ video.pc # "sleep"
    /\ video' = IF video.pc \in {"generateVideos", "query"}
                THEN [video EXCEPT !.pc = "idle", !.result = VideoThrew(message)]
                ELSE [video EXCEPT !.pc = "idle"]
    /\ VideoCatch(message)
    /\ UNCHANGED <<topic, statusMsg, audioVars, genVars, appVars, uploadVars>>

FetchSettles ==
    /\ video.pc = "fetch"
    /\ video' = [video EXCEPT !.pc = "blob"]
    /\ UNCHANGED <<topic, videoUrl, isGenerating, statusMsg, videoError, objectUrls,
                   audioVars, genVars, appVars, uploadVars>>

\* the blob arrives: the rest of the try block, and finally
BlobSettles ==
    /\ video.pc = "blob"
    /\ video' = [video EXCEPT !.pc = "idle"]
    /\ objectUrls' = objectUrls + 1
    /\ videoUrl' = objectUrls + 1
    /\ statusMsg' = ""
    /\ isGenerating' = FALSE
    /\ UNCHANGED <<topic, videoError, audioVars, genVars, appVars, uploadVars>>

\* "Create Another Video"
CreateAnother ==
    /\ videoUrl # 0
    /\ videoUrl' = 0
    /\ UNCHANGED <<topic, isGenerating, statusMsg, videoError, video, objectUrls,
                   audioVars, genVars, appVars, uploadVars>>

\* ------------------------------------------------------------- the App
AnalyzingMessage == "Analyzing document..."
UnexpectedMessage == "An unexpected error occurred while processing the PDF."
TypeError == "Only PDF files are allowed."
SizeError == "File size exceeds the 20MB limit."

Tabs == {"upload", "view", "history", "settings"}
NoAnswer == [def |-> FALSE]
Answer(text, modelUsed) == [def |-> TRUE, text |-> text, modelUsed |-> modelUsed]
DefaultSettings ==
    [def |-> TRUE, depth |-> "detailed", language |-> "english", focus |-> "concept"]

\* Date.now() at the moment an item is made, in milliseconds counted from
\* the midnight before the page was opened; the clock has moved on by the
\* time the next item is made
Timestamps == {1000 + i : i \in 0..MaxRuns}
MillisPerDay == 86400000
DateOf(t) == t \div MillisPerDay

HistoryItem(t, fileName, data) ==
    [id |-> t, fileName |-> fileName, date |-> DateOf(t), data |-> data]

\* localStorage: the key is absent, or holds a string; JSON.stringify of a
\* list is a string JSON.parse gives the list back from
Absent == [kind |-> "absent"]
Garbage == [kind |-> "string", json |-> FALSE, items |-> <<>>]
JsonStringify(items) == [kind |-> "string", json |-> TRUE, items |-> items]
OldItem == HistoryItem(1000 - MillisPerDay, "old.pdf", Answer("study guide A", PRO))
InitialStorages == {Absent, Garbage, JsonStringify(<<OldItem>>)}

\* no validateAndSetFile yet; tick flips with every call of it
NoOffer == [file |-> NoFile, tick |-> FALSE]

\* a direct call of generateAnswersFromPdf has no handleGenerate behind it
NoClosure == [caller |-> "none", file |-> NoFile, history |-> <<>>]

ConstructedApp ==
    /\ mounted = FALSE
    /\ activeTab = "upload"
    /\ file = NoFile
    /\ customPrompt = <<>>
    /\ appSettings = DefaultSettings
    /\ processState = [status |-> "idle", message |-> NoText]
    /\ answerData = NoAnswer
    /\ history = <<>>
    /\ isDragging = FALSE
    /\ uploadError = NoText
    /\ offered = NoOffer
    /\ audioPayload = <<>>
    /\ audioBuffer = NoBuffer
    /\ audioError = NoText
    /\ isPlaying = FALSE
    /\ isLoading = FALSE
    /\ hasAudio = FALSE
    /\ audioContext = "none"
    /\ tornDown = FALSE
    /\ sources = <<>>
    /\ sourceRef = 0
    /\ speech = <<>>
    /\ topic = ""
    /\ videoUrl = 0
    /\ isGenerating = FALSE
    /\ statusMsg = ""
    /\ videoError = NoText
    /\ video = NoVideoRun
    /\ objectUrls = 0

\* UploadArea is rendered only on the upload tab: leaving the tab unmounts
\* it and a later visit starts from its initial state
UploadAreaAfter(tab) ==
    IF tab = "upload"
    THEN UNCHANGED uploadVars
    ELSE /\ isDragging' = FALSE
         /\ uploadError' = NoText
         /\ offered' = NoOffer

\* useEffect(..., []): load the history
Mount ==
    /\ ~mounted
    /\ mounted' = TRUE
    /\ history' = IF storage.kind = "string" /\ storage.json
                  THEN storage.items ELSE history
    /\ UNCHANGED <<audioVars, videoVars, genVars, uploadVars, activeTab, file, customPrompt,
                   appSettings, processState, answerData, storage>>

\* a variant that puts the new item behind the others
AddToHistoryAtEnd(closure, t, fileName, data) ==
    LET updated == closure.history \o <<HistoryItem(t, fileName, data)>>
    IN  /\ history' = updated
        /\ storage' = JsonStringify(updated)

\* addToHistory, as called by the handleGenerate that closed over closure
AddToHistory(closure, t, fileName, data) ==
    LET updated == <<HistoryItem(t, fileName, data)>> \o closure.history
    IN  /\ history' = updated
        /\ storage' = JsonStringify(updated)

\* the items made since the page was opened
ItemsMade ==
    Cardinality({r \in RunIds : /\ closures[r].caller = "handleGenerate"
                                /\ runs[r].outcome.kind = "resolved"})

\* what handleGenerate does when its await of run r is over
Continuation(r, outcome) ==
    IF outcome.kind = "unsettled" \/ closures[r].caller = "none"
    THEN UNCHANGED <<appVars, uploadVars>>
    ELSE IF outcome.kind = "resolved"
    THEN LET result == Answer(outcome.text, outcome.modelUsed)
         IN  /\ answerData' = result
             /\ \E t \in Timestamps :
                   /\ t = 1000 + ItemsMade
                   /\ AddToHistory(closures[r], t, closures[r].file.name, result)
             /\ processState' = [status |-> "success", message |-> NoText]
             /\ activeTab' = "view"
             /\ UploadAreaAfter("view")
             /\ UNCHANGED <<mounted, file, customPrompt, appSettings>>
    ELSE /\ processState' =
               [status |-> "error",
                message |-> IF TruthyText(outcome.message)
                            THEN outcome.message ELSE Text(UnexpectedMessage)]
         /\ UNCHANGED <<mounted, activeTab, file, customPrompt, appSettings,
                        answerData, history, storage, uploadVars>>

\* ------------------------------------- the steps of generateAnswersFromPdf
FileLoaded(r) ==
    /\ runs[r].pc = "readFile"
    /\ runs' = [runs EXCEPT ![r] = AfterFileLoaded(@)]
    /\ UNCHANGED <<nextRun, closures, audioVars, videoVars>>
    /\ Continuation(r, runs'[r].outcome)

FileError(r) ==
    /\ runs[r].pc = "readFile"
    /\ runs' = [runs EXCEPT ![r] = AfterFileError(@)]
    /\ UNCHANGED <<nextRun, closures, audioVars, videoVars>>
    /\ Continuation(r, runs'[r].outcome)

ProSettles(r, resp) ==
    /\ runs[r].pc = "awaitPro"
    /\ runs[r].pro = Pending
    /\ runs' = [runs EXCEPT ![r] = AfterPro(@, resp)]
    /\ UNCHANGED <<nextRun, closures, audioVars, videoVars>>
    /\ Continuation(r, runs'[r].outcome)

\* the PRO call never completes: nothing in the function bounds the await
ProNeverCompletes(r) ==
    /\ runs[r].pc = "awaitPro"
    /\ runs[r].pro = Pending
    /\ runs' = [runs EXCEPT ![r].pro = Never]
    /\ UNCHANGED <<nextRun, closures, appVars, uploadVars, audioVars, videoVars>>

FlashSettles(r, resp) ==
    /\ runs[r].pc = "awaitFlash"
    /\ runs[r].flash = Pending
    /\ runs' = [runs EXCEPT ![r] = AfterFlash(@, resp)]
    /\ UNCHANGED <<nextRun, closures, audioVars, videoVars>>
    /\ Continuation(r, runs'[r].outcome)

FlashNeverCompletes(r) ==
    /\ runs[r].pc = "awaitFlash"
    /\ runs[r].flash = Pending
    /\ runs' = [runs EXCEPT ![r].flash = Never]
    /\ UNCHANGED <<nextRun, closures, appVars, uploadVars, audioVars, videoVars>>

\* ------------------------------------------------------- UploadArea
Disabled == processState.status = "processing"

\* a variant that turns away a file of exactly the limit
ValidateAndSetFileStrict(f) ==
    /\ offered' = [file |-> f, tick |-> ~offered.tick]
    /\ IF f.type # PdfType
       THEN uploadError' = Text(TypeError) /\ file' = file
       ELSE IF f.size >= MaxFileSize
       THEN uploadError' = Text(SizeError) /\ file' = file
       ELSE uploadError' = NoText /\ file' = f

\* validateAndSetFile; onFileSelect is the App's setFile
ValidateAndSetFile(f) ==
    /\ offered' = [file |-> f, tick |-> ~offered.tick]
    /\ IF f.type # PdfType
       THEN uploadError' = Text(TypeError) /\ file' = file
       ELSE IF f.size > MaxFileSize
       THEN uploadError' = Text(SizeError) /\ file' = file
       ELSE uploadError' = NoText /\ file' = f

HandleDragOver ==
    /\ mounted /\ activeTab = "upload"
    /\ isDragging' = IF Disabled THEN isDragging ELSE TRUE
    /\ UNCHANGED <<audioVars, videoVars, genVars, appVars, uploadError, offered>>

HandleDragLeave ==
    /\ mounted /\ activeTab = "upload"
    /\ isDragging' = FALSE
    /\ UNCHANGED <<audioVars, videoVars, genVars, appVars, uploadError, offered>>

HandleDrop(f) ==
    /\ mounted /\ activeTab = "upload"
    /\ isDragging' = FALSE
    /\ IF Disabled
       THEN UNCHANGED <<file, uploadError, offered>>
       ELSE ValidateAndSetFile(f)
    /\ UNCHANGED <<audioVars, videoVars, genVars, mounted, activeTab, customPrompt, appSettings,
                   processState, answerData, history, storage>>

\* the file input is disabled while disabled or while a file is selected
HandleInputChange(f) ==
    /\ mounted /\ activeTab = "upload"
    /\ ~Disabled /\ file = NoFile
    /\ ValidateAndSetFile(f)
    /\ UNCHANGED <<audioVars, videoVars, genVars, isDragging, mounted, activeTab, customPrompt,
                   appSettings, processState, answerData, history, storage>>

\* ------------------------------------------------------ App handlers
SetActiveTab(tab) ==
    /\ mounted
    /\ tab = "view" => processState.status = "success"
    /\ activeTab' = tab
    /\ UploadAreaAfter(tab)
    /\ UNCHANGED <<audioVars, videoVars, genVars, mounted, file, customPrompt, appSettings,
                   processState, answerData, history, storage>>

SetCustomPrompt(text) ==
    /\ mounted /\ activeTab = "upload" /\ ~Disabled
    /\ customPrompt' = text
    /\ UNCHANGED <<audioVars, videoVars, genVars, uploadVars, mounted, activeTab, file, appSettings,
                   processState, answerData, history, storage>>

SetAppSettings(field, value) ==
    /\ mounted /\ activeTab = "settings"
    /\ appSettings' = [appSettings EXCEPT ![field] = value]
    /\ UNCHANGED <<audioVars, videoVars, genVars, uploadVars, mounted, activeTab, file, customPrompt,
                   processState, answerData, history, storage>>

\* handleGenerate up to its await: generateAnswersFromPdf is entered and runs
\* up to its own first await
HandleGenerate ==
    /\ mounted /\ activeTab = "upload"
    /\ file # NoFile /\ processState.status # "processing"
    /\ nextRun \in RunIds
    /\ processState' = [status |-> "processing", message |-> Text(AnalyzingMessage)]
    /\ answerData' = NoAnswer
    /\ runs' = [runs EXCEPT ![nextRun] = StartRun(file, Str(customPrompt), appSettings)]
    /\ closures' = [closures EXCEPT ![nextRun] =
                       [caller |-> "handleGenerate", file |-> file, history |-> history]]
    /\ nextRun' = nextRun + 1
    /\ UNCHANGED <<audioVars, videoVars, uploadVars, mounted, activeTab, file, customPrompt,
                   appSettings, history, storage>>

\* a variant that shows the view without setting the data
LoadFromHistoryStatusOnly(i) ==
    /\ mounted /\ activeTab = "history"
    /\ i \in 1..Len(history)
    /\ processState' = [status |-> "success", message |-> NoText]
    /\ activeTab' = "view"
    /\ UploadAreaAfter("view")
    /\ UNCHANGED <<audioVars, videoVars, genVars, mounted, file, customPrompt,
                   appSettings, answerData, history, storage>>

LoadFromHistory(i) ==
    /\ mounted /\ activeTab = "history"
    /\ i \in 1..Len(history)
    /\ answerData' = history[i].data
    /\ processState' = [status |-> "success", message |-> NoText]
    /\ activeTab' = "view"
    /\ UploadAreaAfter("view")
    /\ UNCHANGED <<audioVars, videoVars, genVars, mounted, file, customPrompt, appSettings,
                   history, storage>>

\* a variant whose X stays in place while the generation is running
ResetWhileProcessing ==
    /\ mounted
    /\ \/ activeTab = "upload" /\ file # NoFile
       \/ activeTab = "view" /\ answerData # NoAnswer
    /\ file' = NoFile
    /\ customPrompt' = <<>>
    /\ answerData' = NoAnswer
    /\ processState' = [status |-> "idle", message |-> NoText]
    /\ activeTab' = "upload"
    /\ UploadAreaAfter(activeTab)
    /\ UNCHANGED <<audioVars, videoVars, genVars, mounted, appSettings, history, storage>>

\* reset: the X of the selected file, and "New Upload" of the view tab
Reset ==
    /\ mounted
    /\ \/ activeTab = "upload" /\ file # NoFile /\ ~Disabled
       \/ activeTab = "view" /\ answerData # NoAnswer
    /\ file' = NoFile
    /\ customPrompt' = <<>>
    /\ answerData' = NoAnswer
    /\ processState' = [status |-> "idle", message |-> NoText]
    /\ activeTab' = "upload"
    /\ UploadAreaAfter(activeTab)
    /\ UNCHANGED <<audioVars, videoVars, genVars, mounted, appSettings, history, storage>>

TryAgain ==
    /\ mounted /\ activeTab = "upload"
    /\ processState.status = "error"
    /\ processState' = [status |-> "idle", message |-> NoText]
    /\ UNCHANGED <<audioVars, videoVars, genVars, uploadVars, mounted, activeTab, file, customPrompt,
                   appSettings, answerData, history, storage>>

\* a variant that leaves the stored list behind
ClearHistoryMemoryOnly ==
    /\ mounted /\ activeTab = "history"
    /\ Len(history) > 0
    /\ history' = <<>>
    /\ UNCHANGED <<audioVars, videoVars, genVars, uploadVars, mounted, activeTab, file,
                   customPrompt, appSettings, processState, answerData, storage>>

ClearHistory ==
    /\ mounted /\ activeTab = "history"
    /\ Len(history) > 0
    /\ history' = <<>>
    /\ storage' = Absent
    /\ UNCHANGED <<audioVars, videoVars, genVars, uploadVars, mounted, activeTab, file, customPrompt,
                   appSettings, processState, answerData>>

\* ------------------------------------------------------ Spec: the App
\* the inputs of this specification: one acceptable file, and calls that
\* return a text, return the empty text or throw; a call that does not
\* complete is a call whose step is never taken
AppFiles == {FileOf(PdfType, MaxFileSize)}
AppSettlements ==
    {Returned(Text("study guide A")), Returned(Text("")), Threw("503 model overloaded")}

Init ==
    /\ ConstructedApp
    /\ audioText = <<>>
    /\ storage \in InitialStorages
    /\ nextRun = 1
    /\ closures = [r \in RunIds |-> NoClosure]
    /\ runs = [r \in RunIds |-> IdleRun]

Next ==
    \/ Mount
    \/ \E f \in AppFiles : HandleDrop(f)
    \/ \E f \in AppFiles : HandleInputChange(f)
    \/ \E tab \in Tabs : SetActiveTab(tab)
    \/ HandleGenerate
    \/ \E i \in 1..MaxRuns + 1 : LoadFromHistory(i)
    \/ Reset
    \/ TryAgain
    \/ ClearHistory
    \/ \E r \in RunIds : FileLoaded(r)
    \/ \E r \in RunIds : FileError(r)
    \/ \E r \in RunIds, resp \in AppSettlements : ProSettles(r, resp)
    \/ \E r \in RunIds, resp \in AppSettlements : FlashSettles(r, resp)

Spec == Init /\ [][Next]_vars

\* ------------------------------ SpecUi: the handlers without hosted calls
UiCustomPrompts == {<<>>, <<"a">>}

UiNext ==
    \/ Mount
    \/ HandleDragOver
    \/ HandleDragLeave
    \/ \E f \in Files : HandleDrop(f)
    \/ \E f \in Files : HandleInputChange(f)
    \/ \E tab \in Tabs : SetActiveTab(tab)
    \/ \E text \in UiCustomPrompts : SetCustomPrompt(text)
    \/ \E field \in {"depth"}, value \in {"concise", "detailed"} : SetAppSettings(field, value)
    \/ \E field \in {"language"}, value \in {"english", "hinglish"} : SetAppSettings(field, value)
    \/ \E field \in {"focus"}, value \in {"concept", "exam"} : SetAppSettings(field, value)
    \/ \E i \in 1..MaxRuns + 1 : LoadFromHistory(i)
    \/ Reset
    \/ ClearHistory

SpecUi == Init /\ [][UiNext]_vars

\* ------------------------- SpecPcm: the decoding of one returned payload
ByteSamples == {0, 127, 128, 255}

PcmInit ==
    /\ ConstructedApp
    /\ audioText = <<>>
    /\ storage = Absent
    /\ nextRun = 1
    /\ closures = [r \in RunIds |-> NoClosure]
    /\ runs = [r \in RunIds |-> IdleRun]

\* the try block of handleGenerateAndPlay from the return of
\* generateAudioGuide on, with its catch and finally: the speech endpoint
\* replies with the base64 of the raw PCM bytes it made, generateAudioGuide
\* throws for an empty payload, and otherwise the payload is decoded, stored
\* and played
AudioGuideSettles(bytes) ==
    /\ SpeechPending
    /\ LET base64Audio == Base64Encode(bytes)
           result == AudioGuideReturn(base64Audio)
           n == Len(speech)
       IN  /\ audioPayload' = <<[pcm |-> bytes, data |-> base64Audio]>>
           /\ IF ~result.ok
              THEN /\ speech' = [speech EXCEPT ![n].state = "threw"]
                   /\ audioError' = Text(result.message)
                   /\ UNCHANGED <<audioBuffer, hasAudio, audioContext, sources,
                                  sourceRef, isPlaying>>
              ELSE LET decoded == DecodePcm(result.data)
                       ctx == IF audioContext = "none" THEN "running" ELSE audioContext
                   IN  /\ speech' = [speech EXCEPT ![n].state = "returned"]
                       /\ audioContext' = ctx
                       /\ IF decoded.ok
                          THEN LET buffer == [def |-> TRUE, channelData |-> decoded.channelData]
                               IN  /\ audioBuffer' = buffer
                                   /\ hasAudio' = TRUE
                                   /\ PlayBuffer(ctx, buffer)
                                   /\ audioError' = audioError
                          ELSE /\ audioError' = Text(decoded.message)
                               /\ UNCHANGED <<audioBuffer, hasAudio, sources,
                                              sourceRef, isPlaying>>
    /\ isLoading' = FALSE
    /\ UNCHANGED <<audioText, tornDown, videoVars, genVars,
                   appVars, uploadVars>>

PcmNext ==
    \/ HandleGenerateAndPlay
    \/ \E bytes \in SeqsUpTo(ByteSamples, MaxPcmBytes) : AudioGuideSettles(bytes)

SpecPcm == PcmInit /\ [][PcmNext]_vars

\* ------------------------------- the components of the AnswerViewer
\* both get data.text, here a guide of a length around the limits of the
\* slices, whose characters differ from place to place
GuideOf(n) == [i \in 1..n |-> IF i % 3 = 1 THEN "a" ELSE IF i % 3 = 2 THEN "b" ELSE "c"]
Guides ==
    {GuideOf(n) : n \in {0, 1, ContextLimit + 1, SliceLimit - 1, SliceLimit, SliceLimit + 1}}

ViewerInit ==
    /\ ConstructedApp
    /\ audioText \in Guides
    /\ storage = Absent
    /\ nextRun = 1
    /\ closures = [r \in RunIds |-> NoClosure]
    /\ runs = [r \in RunIds |-> IdleRun]

\* SpecAudio: one AudioPlayer instance; the endpoint gives no payload, a
\* payload of odd length or a payload of one sample, or the call throws
AudioNext ==
    \/ HandleGenerateAndPlay
    \/ \E bytes \in {<<>>, <<0>>, <<0, 128>>} : AudioGuideSettles(bytes)
    \/ \E message \in SdkErrors : AudioGuideThrows(message)
    \/ \E i \in 1..MaxSources + 1 : SourceEnded(i)

SpecAudio == ViewerInit /\ [][AudioNext]_vars

\* SpecPlayer: the AudioPlayer instance within its AnswerViewer, which gives
\* it another text or unmounts it
PlayerNext ==
    \/ AudioNext
    \/ AudioCleanup
    \/ \E guide \in Guides : TextChanges(guide)

SpecPlayer == ViewerInit /\ [][PlayerNext]_vars

\* SpecVideo: one VideoGenerator instance
Operations ==
    {Operation(FALSE, NoText), Operation(TRUE, NoText), Operation(TRUE, Text("")),
     Operation(TRUE, Text("https://generativelanguage.googleapis.com/download?alt=media"))}

VideoNext ==
    \/ \E value \in {"", "Pythagoras"} : SetTopic(value)
    \/ \E aistudio \in BOOLEAN : VideoHandleGenerate(aistudio)
    \/ \E hasKey \in BOOLEAN : HasSelectedApiKeySettles(hasKey)
    \/ OpenSelectKeySettles
    \/ \E operation \in Operations : GenerateVideosSettles(operation)
    \/ SleepEnds
    \/ \E operation \in Operations : GetVideosOperationSettles(operation)
    \/ \E message \in SdkErrors \union {""} : VideoThrows(message)
    \/ FetchSettles
    \/ BlobSettles
    \/ CreateAnother

SpecVideo == ViewerInit /\ [][VideoNext]_vars

\* SpecBusy: the three operations side by side, the calls of the AudioPlayer
\* and of the VideoGenerator all failing
BusyNext ==
    \/ Mount
    \/ \E f \in AppFiles : HandleInputChange(f)
    \/ HandleGenerate
    \/ TryAgain
    \/ \E r \in RunIds : FileLoaded(r)
    \/ \E r \in RunIds : FileError(r)
    \/ \E r \in RunIds, resp \in AppSettlements : ProSettles(r, resp)
    \/ \E r \in RunIds, resp \in AppSettlements : FlashSettles(r, resp)
    \/ HandleGenerateAndPlay
    \/ \E bytes \in {<<>>, <<0>>} : AudioGuideSettles(bytes)
    \/ \E message \in SdkErrors : AudioGuideThrows(message)
    \/ SetTopic("Pythagoras")
    \/ VideoHandleGenerate(FALSE)
    \/ \E operation \in {Operation(FALSE, NoText), Operation(TRUE, NoText)} :
          GenerateVideosSettles(operation)
    \/ SleepEnds
    \/ \E operation \in {Operation(FALSE, NoText), Operation(TRUE, NoText)} :
          GetVideosOperationSettles(operation)
    \/ \E message \in SdkErrors : VideoThrows(message)

SpecBusy == PcmInit /\ [][BusyNext]_vars

\* --------------------------------------------------- SpecGen: one call
GenInit ==
    /\ ConstructedApp
    /\ audioText = <<>>
    /\ storage = Absent
    /\ nextRun = 2
    /\ closures = [r \in RunIds |-> NoClosure]
    /\ \E f \in GenFiles, c \in CustomInstructions, s \in SettingsArgs :
          runs = [r \in RunIds |-> IF r = 1 THEN StartRun(f, c, s) ELSE IdleRun]

GenNext ==
    \/ FileLoaded(1)
    \/ FileError(1)
    \/ \E resp \in Settlements : ProSettles(1, resp)
    \/ ProNeverCompletes(1)
    \/ \E resp \in Settlements : FlashSettles(1, resp)
    \/ FlashNeverCompletes(1)

SpecGen == GenInit /\ [][GenNext]_vars

\* ------------------------------------------------------------ properties
CallsTo(run, model) == {i \in 1..Len(run.calls) : run.calls[i].model = model}
ReturnedText(call) == call.kind = "ok" /\ call.text.def /\ call.text.s # ""
ReturnedEmpty(call) == call.kind = "ok" /\ ~(call.text.def /\ call.text.s # "")
CallFailed(call) == call.kind = "throw" \/ ReturnedEmpty(call)
Reported(run) == run.outcome.kind # "unsettled"

\* C1: when the PRO call returned an empty text, exactly one FLASH call has
\* been made, and a failure is reported only after that FLASH call has failed
C1_EmptyPrimaryFallsBackOnce ==
    \A r \in RunIds :
        ReturnedEmpty(runs[r].pro) =>
            /\ Cardinality(CallsTo(runs[r], FLASH)) = 1
            /\ runs[r].outcome.kind = "rejected" => CallFailed(runs[r].flash)

C1_Witness ==
    \E r \in RunIds :
        /\ ReturnedEmpty(runs[r].pro)
        /\ runs[r].outcome.kind = "rejected"
        /\ Cardinality(CallsTo(runs[r], FLASH)) = 1

\* C2: in the step in which the second of the two calls of a run made by
\* handleGenerate fails, the run rejects with the fixed message and
\* processState becomes the error state showing that fixed message
C2_BothFailFixedMessage ==
    [][\A r \in RunIds :
          (/\ closures[r].caller = "handleGenerate"
           /\ runs[r].pc = "awaitFlash"
           /\ CallFailed(runs'[r].pro) /\ CallFailed(runs'[r].flash))
          => /\ runs'[r].outcome =
                   [kind |-> "rejected",
                    message |-> [def |-> TRUE,
                                 s |-> "Failed to generate answers. Please try again later or check if the PDF is valid."]]
             /\ processState'.status = "error"
             /\ processState'.message = runs'[r].outcome.message
             /\ runs'[r].flash.kind = "throw" =>
                   processState'.message.s # runs'[r].flash.message]_vars

C2_Witness ==
    \E r \in RunIds :
        /\ closures[r].caller = "handleGenerate"
        /\ runs[r].pro.kind = "throw" /\ runs[r].flash.kind = "throw"
        /\ processState.status = "error"
        /\ processState.message.s = FixedMessage

\* C3: the PRO call threw and the FLASH call returned a text: the result is
\* that text tagged with the FLASH model, after exactly two calls
C3_ThrowThenFlashText ==
    \A r \in RunIds :
        (runs[r].pro.kind = "throw" /\ ReturnedText(runs[r].flash)) =>
            /\ runs[r].outcome =
                  [kind |-> "resolved", text |-> runs[r].flash.text.s,
                   modelUsed |-> "gemini-2.5-flash"]
            /\ Len(runs[r].calls) = 2

C3_Witness ==
    \E r \in RunIds :
        /\ runs[r].pro.kind = "throw" /\ ReturnedText(runs[r].flash)
        /\ runs[r].outcome.kind = "resolved"

\* C4: the PRO call returned a text: the result is that text tagged with the
\* PRO model and no FLASH call is made; any result is the text of the call
\* to the model its tag names
C4_TagNamesTheTier ==
    \A r \in RunIds :
        /\ ReturnedText(runs[r].pro) =>
              /\ runs[r].outcome =
                    [kind |-> "resolved", text |-> runs[r].pro.text.s,
                     modelUsed |-> "gemini-3-pro-preview"]
              /\ CallsTo(runs[r], FLASH) = {}
              /\ runs[r].flash.kind = "none"
        /\ runs[r].outcome.kind = "resolved" =>
              \/ /\ runs[r].outcome.modelUsed = "gemini-3-pro-preview"
                 /\ ReturnedText(runs[r].pro)
                 /\ runs[r].pro.text.s = runs[r].outcome.text
              \/ /\ runs[r].outcome.modelUsed = "gemini-2.5-flash"
                 /\ CallFailed(runs[r].pro)
                 /\ ReturnedText(runs[r].flash)
                 /\ runs[r].flash.text.s = runs[r].outcome.text

C4_Witness ==
    \E r \in RunIds :
        /\ ReturnedText(runs[r].pro)
        /\ runs[r].outcome.kind = "resolved"
        /\ runs[r].outcome.text = "study guide B"

\* C5 as stated: a PRO call that threw, that returned an empty text or that
\* does not complete has been followed by the FLASH call
C5_AllThreeFallBack ==
    \A r \in RunIds :
        (CallFailed(runs[r].pro) \/ runs[r].pro.kind = "never") =>
            Cardinality(CallsTo(runs[r], FLASH)) = 1

\* C5 amended: a PRO call that threw or returned an empty text has been
\* followed by the same one FLASH call; while a PRO call does not complete
\* the function stays at its await, with no FLASH call and nothing reported
C5_ThrowAndEmptyFallBack ==
    \A r \in RunIds :
        /\ CallFailed(runs[r].pro) =>
              /\ Len(runs[r].calls) >= 2
              /\ CallsTo(runs[r], FLASH) = {2}
              /\ runs[r].calls[2].data = runs[r].calls[1].data
              /\ runs[r].calls[2].text = runs[r].calls[1].text
        /\ runs[r].pro.kind = "never" =>
              /\ CallsTo(runs[r], FLASH) = {}
              /\ ~Reported(runs[r])

C5_Witness ==
    \E r \in RunIds :
        /\ runs[r].pro.kind = "throw"
        /\ CallsTo(runs[r], FLASH) = {2}

\* C6: the calls of a run are none, the PRO call, or the PRO call and then
\* the FLASH call; the FLASH call is there only when the PRO call failed, and
\* a failed FLASH call ends the run with these two calls
C6_AtMostTwoCallsInOrder ==
    \A r \in RunIds :
        /\ Len(runs[r].calls) <= 2
        /\ Cardinality(CallsTo(runs[r], PRO)) <= 1
        /\ Cardinality(CallsTo(runs[r], FLASH)) <= 1
        /\ CallsTo(runs[r], PRO) \subseteq {1}
        /\ CallsTo(runs[r], FLASH) \subseteq {2}
        /\ CallsTo(runs[r], FLASH) # {} => CallFailed(runs[r].pro)
        /\ CallFailed(runs[r].flash) =>
              /\ runs[r].outcome.kind = "rejected"
              /\ Len(runs[r].calls) = 2

C6_Witness ==
    \E r \in RunIds :
        /\ CallFailed(runs[r].flash)
        /\ runs[r].outcome.kind = "rejected"
        /\ Len(runs[r].calls) = 2

\* the prompt a run sent
Sent(run) == run.calls[1].text
Places(prompt, pieces) == {i \in 1..Len(prompt) : prompt[i] \in pieces}
DepthPieces ==
    {"\n- DEPTH: Concise. Focus on key points and direct answers. Avoid fluff.",
     "\n- DEPTH: Detailed. Provide in-depth explanations, background context, and step-by-step derivations."}
LanguagePieces ==
    {"\n- LANGUAGE: Use English for technical terms but explain concepts using simple analogies or occasional Hindi/Gujarati context where helpful for Indian students (Hinglish style)."}
FocusPieces ==
    {"\n- FOCUS: Exam Preparation. Highlight potential exam questions, common pitfalls, and marking scheme tips.",
     "\n- FOCUS: Concept Mastery. Focus on deep understanding, real-world applications, and connecting dots between topics."}

\* C7: a prompt sent for a settings record has exactly one DEPTH directive,
\* a LANGUAGE directive exactly when the language is hinglish, exactly one
\* FOCUS directive, in this order, each the text of the chosen value
C7_OneDirectivePerSetting ==
    \A r \in RunIds :
        (runs[r].calls # <<>> /\ runs[r].settings.def) =>
            LET prompt == Sent(runs[r])
                depth == Places(prompt, DepthPieces)
                language == Places(prompt, LanguagePieces)
                focus == Places(prompt, FocusPieces)
            IN  /\ Cardinality(depth) = 1
                /\ Cardinality(language) = IF runs[r].settings.language = "hinglish" THEN 1 ELSE 0
                /\ Cardinality(focus) = 1
                /\ \A d \in depth, l \in language, f \in focus : d < l /\ l < f
                /\ \A d \in depth, f \in focus : d < f
                /\ \A d \in depth :
                      (runs[r].settings.depth = "concise") = (prompt[d] = DepthConcise)
                /\ \A f \in focus :
                      (runs[r].settings.focus = "exam") = (prompt[f] = FocusExam)

C7_Witness ==
    \E r \in RunIds :
        /\ runs[r].calls # <<>> /\ runs[r].settings.def
        /\ runs[r].settings.language = "hinglish"
        /\ runs[r].settings.depth = "concise"
        /\ Cardinality(Places(Sent(runs[r]), LanguagePieces)) = 1

\* the custom instruction is the quoted tail of the prompt
QuotedAtEnd(prompt, text) ==
    LET n == Len(text)
        m == Len(prompt)
    IN  /\ m >= n + 3
        /\ prompt[m - n - 1] = "\n\nUSER SPECIFIC INSTRUCTIONS: \""
        /\ SubSeq(prompt, m - n, m - 1) = text
        /\ prompt[m] = "\"."
        /\ \A i \in Places(prompt, DepthPieces \cup LanguagePieces \cup FocusPieces) :
              i < m - n - 1
NothingAdded(prompt) ==
    Places(prompt, {"\n\nUSER SPECIFIC INSTRUCTIONS: \"", "\"."} \cup Chars) = {}

\* C8 as stated: every non-empty custom instruction is the quoted tail of the
\* prompt, an empty or absent one adds nothing
C8_NonEmptyAppended ==
    \A r \in RunIds :
        runs[r].calls # <<>> =>
            IF runs[r].customInstructions.def /\ Len(runs[r].customInstructions.s) > 0
            THEN QuotedAtEnd(Sent(runs[r]), runs[r].customInstructions.s)
            ELSE NothingAdded(Sent(runs[r]))

\* C8 amended: a custom instruction with a character that is not white space
\* is the quoted tail of the prompt, unchanged; an absent, an empty and an
\* all-white-space one add nothing
C8_NonBlankAppended ==
    \A r \in RunIds :
        runs[r].calls # <<>> =>
            LET text == runs[r].customInstructions.s
            IN  IF /\ runs[r].customInstructions.def
                   /\ \E i \in 1..Len(text) : text[i] # " "
                THEN QuotedAtEnd(Sent(runs[r]), text)
                ELSE NothingAdded(Sent(runs[r]))

C8_Witness ==
    \E r \in RunIds :
        /\ runs[r].calls # <<>>
        /\ runs[r].customInstructions.s = <<" ", "\"">>
        /\ QuotedAtEnd(Sent(runs[r]), <<" ", "\"">>)

\* C9: a call of validateAndSetFile with a PDF of 20 * 1024 * 1024 bytes
\* selects it; with a PDF of one byte more it sets the size error; with
\* another MIME type it sets the type error whatever the size; a call that
\* sets an error leaves the selected file as it was
Validated == offered' # offered /\ offered'.file # NoFile
C9_UploadBoundary ==
    [][Validated =>
          LET f == offered'.file
          IN  /\ (f.type = "application/pdf" /\ f.size = 20971520) =>
                    (file' = f /\ uploadError' = NoText)
              /\ (f.type = "application/pdf" /\ f.size = 20971521) =>
                    (uploadError'.s = "File size exceeds the 20MB limit." /\ file' = file)
              /\ f.type # "application/pdf" =>
                    (uploadError'.s = "Only PDF files are allowed." /\ file' = file)
              /\ file' # file => (file' = f /\ uploadError' = NoText)
              /\ uploadError' # NoText => file' = file]_vars

C9_Witness ==
    /\ offered.file.type = "application/pdf"
    /\ offered.file.size = 20971521
    /\ uploadError.s = "File size exceeds the 20MB limit."
    /\ file.size = 20971520

\* the decoding of a payload that arrived and was not empty is over
Decoded == audioPayload # <<>> /\ Len(audioPayload[1].data) > 0
InUnitRange(sample) == -sample.den <= sample.num /\ sample.num <= sample.den
\* sample i is the 16-bit two's complement value of bytes 2i-1 and 2i over 32768
IsSampleOf(sample, pcm, i) ==
    /\ sample.den = 32768
    /\ sample.num \in -32768..32767
    /\ (sample.num - (pcm[2 * i - 1] + 256 * pcm[2 * i])) % 65536 = 0

\* C10 as stated: decoding N bytes gives a buffer of exactly N/2 samples,
\* each in [-1, 1], for every N
C10_HalfAsManySamples ==
    Decoded =>
        /\ audioBuffer.def
        /\ 2 * Len(audioBuffer.channelData) = Len(audioPayload[1].pcm)
        /\ \A i \in 1..Len(audioBuffer.channelData) : InUnitRange(audioBuffer.channelData[i])

\* C10 amended: decoding an even number N of bytes gives a buffer of exactly
\* N/2 samples, sample i being the 16-bit value of bytes 2i-1 and 2i divided
\* by 32768 and lying in [-1, 1]; for an odd N the Int16Array constructor
\* throws, no buffer is stored and the error is recorded
C10_EvenHalfOddThrows ==
    Decoded =>
        LET pcm == audioPayload[1].pcm
        IN  IF Len(pcm) % 2 = 0
            THEN /\ audioBuffer.def
                 /\ audioError = NoText
                 /\ 2 * Len(audioBuffer.channelData) = Len(pcm)
                 /\ \A i \in 1..Len(audioBuffer.channelData) :
                       /\ InUnitRange(audioBuffer.channelData[i])
                       /\ IsSampleOf(audioBuffer.channelData[i], pcm, i)
            ELSE /\ ~audioBuffer.def
                 /\ audioError.def

C10_Witness ==
    /\ Decoded
    /\ audioBuffer.def
    /\ Len(audioBuffer.channelData) = 2
    /\ audioBuffer.channelData[1].num = -32768
    /\ audioBuffer.channelData[2].num = 32767

\* ---------------------------------------------- the App's state machine
StatusChanges == processState'.status # processState.status
Range(seq) == {seq[i] : i \in 1..Len(seq)}
Stored == IF storage.kind = "string" /\ storage.json THEN Range(storage.items) ELSE {}

\* run r of handleGenerate is between its call and its settlement
InFlight(r) ==
    /\ closures[r].caller = "handleGenerate"
    /\ runs[r].pc # "idle"
    /\ runs[r].outcome.kind = "unsettled"
Succeeds(r) == InFlight(r) /\ runs'[r].outcome.kind = "resolved"
Fails(r) == InFlight(r) /\ runs'[r].outcome.kind = "rejected"

StatedTransitions ==
    {<<"idle", "processing">>, <<"processing", "success">>, <<"processing", "error">>,
     <<"success", "idle">>, <<"error", "idle">>}

\* C12 as stated: the status changes only along idle -> processing,
\* processing -> success, processing -> error, success -> idle, error -> idle
C12_OnlyStatedTransitions ==
    [][StatusChanges => <<processState.status, processState'.status>> \in StatedTransitions]_vars

\* C12: the status becomes processing only from another status and by a
\* generation being started, becomes error only by a generation failing,
\* becomes success only by a generation succeeding or an item being loaded
\* from the history, and becomes idle only from success or error
C12_TransitionsOfTheHandlers ==
    [][StatusChanges =>
        \/ /\ processState'.status = "processing"
           /\ nextRun' = nextRun + 1
        \/ /\ processState'.status = "error"
           /\ \E r \in RunIds : Fails(r)
        \/ /\ processState'.status = "success"
           /\ \/ \E r \in RunIds : Succeeds(r)
              \/ activeTab = "history" /\ answerData' \in {history[i].data : i \in 1..Len(history)}
        \/ /\ processState'.status = "idle"
           /\ processState.status \in {"success", "error"}]_vars

\* an item of the history is shown although no generation was ever started
C12_Witness == processState.status = "success" /\ nextRun = 1

\* C13 as stated: at most one generateAnswersFromPdf call is in flight
C13_AtMostOneInFlight == Cardinality({r \in RunIds : InFlight(r)}) <= 1

\* C14: a generation that succeeds makes one item, of the returned data and
\* the name of the file, at the head of a list that is most-recent-first; a
\* generation that fails, and any other step, makes none
C14_OneItemAtTheHead ==
    [][/\ \A r \in RunIds : Succeeds(r) =>
            /\ Len(history') >= 1
            /\ Head(history').data =
                   Answer(runs'[r].outcome.text, runs'[r].outcome.modelUsed)
            /\ Head(history').fileName = closures[r].file.name
            /\ Head(history') \notin Range(history)
            /\ \A i \in 2..Len(history') : history'[i].id < Head(history').id
            /\ \A i, j \in 1..Len(history') : i < j => history'[i].id >= history'[j].id
            /\ storage' = JsonStringify(history')
       /\ (\A r \in RunIds : ~Succeeds(r)) =>
            Range(history') \subseteq Range(history) \union Stored
       /\ \A r \in RunIds : Fails(r) => history' = history /\ storage' = storage]_vars

\* a second item has been put before the first
C14_Witness ==
    /\ Len(history) >= 2
    /\ history[1].id > 1000
    /\ history[2].id = 1000

\* C15 as stated: but for clearHistory, every item of the list is still in
\* the list, and in local storage, after the step
C15_ItemsStayUntilCleared ==
    [][\/ activeTab = "history" /\ history' = <<>> /\ storage' = Absent
       \/ \A i \in 1..Len(history) :
             /\ history[i] \in Range(history')
             /\ storage'.kind = "string" /\ history[i] \in Range(storage'.items)]_vars

\* ------------------------------------------------------- the AudioPlayer
BufferStored == hasAudio /\ audioBuffer.def

\* C11: once a buffer is stored, no step calls generateAudioGuide or changes
\* the buffer, and every source made from then on plays the stored buffer
C11_StoredBufferIsReused ==
    [][BufferStored =>
        /\ speech' = speech
        /\ audioBuffer' = audioBuffer
        /\ hasAudio'
        /\ Len(sources') > Len(sources) =>
              sources'[Len(sources')].buffer = audioBuffer]_vars

\* the buffer of the only call is played a second time
C11_Witness ==
    /\ BufferStored
    /\ Len(speech) = 1
    /\ Len(sources) = 2
    /\ sources[2].state = "playing"

\* the latest call has ended for want of a payload and no other has begun
NoAudioFailed ==
    /\ ~isLoading
    /\ audioPayload # <<>>
    /\ Len(audioPayload[1].data) = 0

\* C18: when the speech endpoint returns no payload, the error "No audio
\* generated by the model." is recorded, no buffer is stored, nothing is
\* played, isLoading is cleared, and the step the player takes next is a new
\* call of the speech endpoint
C18_NoPayloadLeavesPlayerReady ==
    /\ [](NoAudioFailed =>
            /\ audioError = Text(NoAudioMessage)
            /\ ~hasAudio /\ ~audioBuffer.def
            /\ ~isPlaying /\ sources = <<>>
            /\ speech[Len(speech)].state = "threw"
            /\ Len(speech) < MaxSpeechCalls => ENABLED HandleGenerateAndPlay)
    /\ [][NoAudioFailed =>
            /\ isLoading'
            /\ speech' = Append(speech, SpeechCall(audioText))
            /\ speech'[Len(speech')].state = "pending"]_vars

\* a second call follows the one that returned no payload
C18_Witness ==
    /\ Len(speech) = 2
    /\ speech[1].state = "threw"
    /\ speech[2].state = "pending"
    /\ audioError = NoText

Min(a, b) == IF a < b THEN a ELSE b

\* C19: the text of every request to the speech endpoint is the fixed prefix
\* followed by exactly the first min(length, 4000) characters of the guide
C19_FirstFourThousandSent ==
    \A c \in 1..Len(speech) :
        LET guide == speech[c].text
            sent == speech[c].request.contents
            n == Min(Len(guide), 4000)
        IN  /\ guide = audioText
            /\ sent[1] = ReadPrefix
            /\ Len(sent) = 1 + n
            /\ \A k \in 1..n : sent[k + 1] = guide[k]

\* a guide of 4001 characters has been sent without its last character
C19_Witness ==
    /\ speech # <<>>
    /\ Len(speech[1].text) = 4001
    /\ Len(speech[1].request.contents) = 4001

\* ---------------------------------------------------- the VideoGenerator
HandleDone(run) == run.operation.def /\ run.operation.done
HandleNotDone(run) == run.operation.def /\ ~run.operation.done

\* C16: generateEducationalVideo returns the uri of a handle that reported
\* done; its sleeps and status queries alternate, a sleep of 5 s first; with
\* a handle that is not done it is asleep or asking, however many queries it
\* has made, unless a call threw; it has settled once the handle is done;
\* and it asks nothing when the first handle is done
C16_PollsUntilDone ==
    /\ video.result.kind = "returned" =>
          HandleDone(video) /\ video.result.uri = video.operation.uri
    /\ \A i \in 1..Len(video.trace) :
          IF i % 2 = 1
          THEN video.trace[i].event = "sleep" /\ video.trace[i].ms = 5000
          ELSE video.trace[i].event = "query"
    /\ HandleNotDone(video) =>
          \/ video.result.kind = "unsettled" /\ video.pc \in {"sleep", "query"}
          \/ video.result.kind = "threw" /\ video.result.message # NoUriMessage
    /\ HandleDone(video) => video.result.kind \in {"returned", "threw"}
    /\ video.result.kind = "unsettled" => ~HandleDone(video)
    /\ (video.first.def /\ video.first.done) => video.trace = <<>>

\* the uri came back after two status queries
C16_Witness ==
    /\ video.result.kind = "returned"
    /\ Queries(video) = 2
    /\ ~video.first.done

\* C17: when the operation is done without a uri, generateEducationalVideo
\* has thrown the no-uri error, the error is shown, nothing was fetched,
\* videoUrl is null and isGenerating is cleared
C17_NoUriFails ==
    (HandleDone(video) /\ ~TruthyText(video.operation.uri)) =>
        /\ video.result = VideoThrew(NoUriMessage)
        /\ videoError = Text(NoUriMessage)
        /\ video.fetched = <<>>
        /\ videoUrl = 0
        /\ ~isGenerating

\* a status query brought the handle that is done without a uri
C17_Witness ==
    /\ HandleDone(video)
    /\ ~TruthyText(video.operation.uri)
    /\ Queries(video) >= 1
    /\ videoError = Text(NoUriMessage)

\* ------------------------------------------------------ the busy flags
\* the hosted calls of an operation settle with a failure in this step
GenerationFails == \E r \in RunIds : Fails(r)
AudioFails ==
    /\ SpeechPending
    /\ speech'[Len(speech)].state # "pending"
    /\ ~audioBuffer'.def
VideoFails ==
    /\ video.pc # "idle"
    /\ video'.pc = "idle"
    /\ videoUrl' = 0

\* C20: a busy flag is set only while a call of its operation is
\* outstanding, and the step in which the calls of an operation settle with
\* a failure clears the flag and leaves the operation's button enabled for
\* the same input
C20_FailureClearsTheBusyFlag ==
    /\ [](/\ processState.status = "processing" => \E r \in RunIds : InFlight(r)
          /\ isLoading => SpeechPending
          /\ isGenerating => video.pc # "idle")
    /\ [][/\ GenerationFails =>
               /\ processState'.status = "error"
               /\ file' = file
          /\ AudioFails =>
               /\ ~isLoading'
               /\ ~isPlaying' /\ ~hasAudio'
               /\ audioError'.def
          /\ VideoFails =>
               /\ ~isGenerating'
               /\ topic' = topic
               /\ videoError'.def]_vars

\* each of the three operations has failed and none is busy
C20_Witness ==
    /\ processState.status = "error" /\ file # NoFile
    /\ audioError.def /\ ~isLoading /\ speech # <<>>
    /\ videoError.def /\ ~isGenerating /\ video.result.kind = "threw"

\* ------------------------------------------------ the two requests of a run
\* C23: the PRO and the FLASH request of a run carry the bytes and the type of
\* the file, the assembled prompt and the system instruction alike; the PRO
\* request names PRO and has the thinking budget, the FLASH request names
\* FLASH and has no thinking option
C23_SameRequestButModelAndThinking ==
    \A r \in RunIds :
        Len(runs[r].calls) = 2 =>
            LET pro == runs[r].calls[1]
                flash == runs[r].calls[2]
            IN  /\ pro.data = FileToBase64(runs[r].file) /\ flash.data = pro.data
                /\ pro.mimeType = runs[r].file.type /\ flash.mimeType = pro.mimeType
                /\ pro.text = AssemblePrompt(runs[r].customInstructions, runs[r].settings)
                /\ flash.text = pro.text
                /\ pro.systemInstruction = SYSTEM_INSTRUCTION
                /\ flash.systemInstruction = pro.systemInstruction
                /\ pro.model = PRO /\ flash.model = FLASH
                /\ pro.thinkingConfig = [def |-> TRUE, thinkingBudget |-> 2048]
                /\ flash.thinkingConfig = [def |-> FALSE]

\* both requests of a run with a custom instruction and settings have gone out
C23_Witness ==
    /\ Len(runs[1].calls) = 2
    /\ runs[1].settings.def /\ runs[1].settings.language = "hinglish"
    /\ Len(runs[1].customInstructions.s) = 2
    /\ runs[1].flash # Pending

AssembledWithoutRecord(r) == runs[r].calls # <<>> /\ ~runs[r].settings.def

\* C24 as stated: a prompt assembled without a settings record is the prompt
\* assembled with {detailed, english, concept}
C24_AbsentRecordMeansDefaults ==
    \A r \in RunIds :
        AssembledWithoutRecord(r) =>
            Sent(runs[r]) = AssemblePrompt(runs[r].customInstructions, DefaultSettings)

\* C24: a prompt assembled without a settings record has no configuration
\* section, hence no depth and no focus directive; the detailed depth
\* directive and the concept focus directive are those of the record
\* {detailed, english, concept}
C24_AbsentRecordMeansNoDirectives ==
    \A r \in RunIds :
        /\ AssembledWithoutRecord(r) =>
              /\ Places(Sent(runs[r]), DepthPieces \union LanguagePieces \union FocusPieces
                                          \union {ConfigHeader}) = {}
              /\ Sent(runs[r]) = <<BasePrompt>> \o CustomDirective(runs[r].customInstructions)
        /\ (runs[r].calls # <<>> /\ runs[r].settings = DefaultSettings) =>
              Sent(runs[r]) = <<BasePrompt, ConfigHeader, DepthDetailed, FocusConcept>>
                                 \o CustomDirective(runs[r].customInstructions)

\* a prompt without a record and with a custom instruction has been sent
C24_Witness ==
    /\ AssembledWithoutRecord(1)
    /\ Len(Sent(runs[1])) > 1

\* ------------------------------------------------ the App's data and history
\* C25: while the status is success, answerData is not null
C25_SuccessHasData == processState.status = "success" => answerData # NoAnswer

\* a generation ended with success after an item of the history was shown
C25_Witness ==
    /\ processState.status = "success"
    /\ ItemsMade = 2
    /\ answerData.modelUsed = FLASH

\* C26 as stated: an item that is neither in the list nor in local storage,
\* as every item is after clearHistory, is in neither after the step, unless
\* the step has made it
C26_ClearedItemsStayGone ==
    [][\A item \in Range(history') \union
                  (IF storage'.kind = "string" THEN Range(storage'.items) ELSE {}) :
          \/ item \in Range(history) \union Stored
          \/ item.id = 1000 + ItemsMade]_vars

StoredList == IF storage.kind = "string" THEN storage.items ELSE <<>>

\* C29: a step that changes the history list or the stored value, by
\* addToHistory or clearHistory, leaves the stored list equal to the list in
\* memory, an absent key standing for the empty list; the list loaded at
\* start-up from a stored list is that list
C29_StorageFollowsMemory ==
    [][/\ (mounted /\ (history' # history \/ storage' # storage)) =>
            /\ StoredList' = history'
            /\ history' = <<>> <=> storage' = Absent
       /\ (~mounted /\ mounted' /\ storage.kind = "string" /\ storage.json) =>
            history' = storage.items /\ storage' = storage]_vars

\* the list was cleared after an item had been added to the stored one
C29_Witness ==
    /\ mounted
    /\ ItemsMade >= 1
    /\ history = <<>> /\ storage = Absent
    /\ runs[1].outcome.kind = "resolved"

\* ------------------------------------------------ the object URLs of a video
\* VideoGenerator.tsx has no call of URL.revokeObjectURL: every object URL
\* that was created is still registered
UnrevokedUrls == objectUrls

\* C22 as stated: an object URL that is replaced or discarded is revoked, so
\* the only object URL that is not revoked is the one videoUrl holds
C22_ReplacedUrlIsRevoked ==
    /\ UnrevokedUrls <= 1
    /\ videoUrl = 0 => UnrevokedUrls = 0

\* ------------------------------------------------ the sources of a player
Playing == {i \in 1..Len(sources) : sources[i].state = "playing"}

\* C21 as stated: once the cleanup has run, the context of the player is not
\* open and none of its sources is playing, whenever the reply of a call
\* that was outstanding arrives
C21_TornDownPlayerIsSilent ==
    tornDown => audioContext # "running" /\ Playing = {}

\* C27 as stated: at most one source is playing, and isPlaying is true
\* exactly when a source started by playBuffer is playing, neither stopped
\* nor ended
C27_OneSourceAndTheFlagAgrees ==
    /\ Cardinality(Playing) <= 1
    /\ isPlaying <=> Playing # {}

\* C28 as stated: the buffer a play click starts without a new call of the
\* speech endpoint was synthesized from the text the player has now, the
\* stored buffer being the one of the latest call
C28_ReplaysTheCurrentText ==
    [][(~isLoading /\ speech' = speech /\ Len(sources') > Len(sources)) =>
          speech[Len(speech)].text = audioText]_vars
====
